---- MODULE Spec2Model ----
(***************************************************************************)
(* Model of the custom-redis command-execution core:                       *)
(*   engine/database.ts    Database (keyspace + expirations, lazy TTL)     *)
(*   engine/valueEntry.ts  ValueEntry                                      *)
(*   engine/engine.ts      Engine (fixed array of Databases)               *)
(*   commands/registry.ts, dispatcher.ts, errors.ts, handlers/string.ts    *)
(* Time is in milliseconds, as returned by Date.now().                     *)
(***************************************************************************)
EXTENDS Integers, Sequences, FiniteSets, TLC

(***************************************************************************)
(* Bounds of the model.                                                    *)
(***************************************************************************)
\* the clock advances in whole seconds, at most MaxTicks times
MaxTicks == 1
\* largest seconds argument given to EXPIRE
MaxSeconds == 2
\* number of databases of the Engine under the dispatch specification
MaxDbCount == 2
\* most details a caller adds to an error it caught
MaxDetails == 1

\* milliseconds per second: `Date.now() + args.seconds * 1000`
MsPerSecond == 1000

Keys == {"k1", "k2"}
EngineKeys == {"k1"}
Values == {"a", "b"}
\* type tags given to entries stored in the model (RedisDataType has five)
RedisDataType == {"string", "list", "set", "hash", "stream"}
UsedTypes == {"string", "list"}

\* instants the clock can show
Instants == {t * MsPerSecond : t \in 0..MaxTicks}
\* timestamps handed to Database.setExpiry: past, present and future ones
Timestamps == {t * MsPerSecond : t \in 0..(MaxTicks + MaxSeconds)}

VARIABLES
    now,          \* Date.now()
    dbCount,      \* Engine.dbCount
    keyspace,     \* keyspace[d]    : Database.keyspace of databases[d]
    expirations,  \* expirations[d] : Database.expirations of databases[d]
    commands,     \* CommandRegistry.commands (upper-case name -> command)
    last,         \* the last call made and what it returned or threw
    lastSet,      \* history, lastSet[d]: key -> the entry of the most recent
                  \* set(key, .) on databases[d] with no delete(key) after it
    evicted,      \* history, evicted[d]: the keys a get() on databases[d]
                  \* deleted as expired, with no set(key, .) since
    stale         \* history, stale[d]: the keys of databases[d] whose entry
                  \* was stored there at an instant when the clock had reached
                  \* the expiry recorded for the key

vars == <<now, dbCount, keyspace, expirations, commands, last, lastSet, evicted,
          stale>>

(***************************************************************************)
(* Map<K, V> as a function whose DOMAIN is the set of keys present.        *)
(***************************************************************************)
EmptyMap == [k \in {} |-> 0]
MapHas(m, k) == k \in DOMAIN m
MapSet(m, k, v) == [x \in (DOMAIN m) \cup {k} |-> IF x = k THEN v ELSE m[x]]
MapDelete(m, k) == [x \in (DOMAIN m) \ {k} |-> m[x]]

(***************************************************************************)
(* ValueEntry                                                              *)
(***************************************************************************)
\* `undefined` for the optional createdAt argument
Undefined == -1

\* constructor(type, value, createdAt?) run when the clock shows `clock`
ValueEntry(type, value, createdAt, clock) ==
    [type      |-> type,
     value     |-> value,
     createdAt |-> IF createdAt = Undefined THEN clock ELSE createdAt,
     updatedAt |-> clock]

\* cloneWithValue that stamps the clone as created now
cloneWithValueRestamped(self, value, clock) ==
    ValueEntry(self.type, value, Undefined, clock)

\* cloneWithValue(value) on `self`, run when the clock shows `clock`
cloneWithValue(self, value, clock) ==
    ValueEntry(self.type, value, self.createdAt, clock)

\* placeholder where no entry is returned or passed
NoEntry == [type |-> "none", value |-> "", createdAt |-> 0, updatedAt |-> 0]

(***************************************************************************)
(* Database: one database is the pair <<keyspace, expirations>>.           *)
(* Each method yields the database after the call and the value returned.  *)
(***************************************************************************)
\* isExpired with `>` for `>=`
isExpiredStrict(exp, key, clock) ==
    MapHas(exp, key) /\ clock > exp[key]

\* isExpired(key)
isExpired(exp, key, clock) ==
    MapHas(exp, key) /\ clock >= exp[key]

\* delete that forgets the TTL metadata
DbDeleteKeyspaceOnly(ks, exp, key) ==
    [ks |-> MapDelete(ks, key), exp |-> exp]

\* delete that forgets the keyspace
DbDeleteExpirationsOnly(ks, exp, key) ==
    [ks |-> ks, exp |-> MapDelete(exp, key)]

\* delete(key)
DbDelete(ks, exp, key) ==
    [ks |-> MapDelete(ks, key), exp |-> MapDelete(exp, key)]

\* get that sweeps every key whose expiry has passed, not only its own
DbGetSweeping(ks, exp, key, clock) ==
    LET dead == {k \in DOMAIN exp : clock >= exp[k]} IN
    [ks  |-> [x \in (DOMAIN ks) \ dead |-> ks[x]],
     exp |-> [x \in (DOMAIN exp) \ dead |-> exp[x]],
     ret |-> IF key \in dead \/ ~MapHas(ks, key) THEN NoEntry ELSE ks[key],
     deleted |-> key \in dead]

\* get without the lazy expiry check
DbGetStale(ks, exp, key, clock) ==
    [ks  |-> ks,
     exp |-> exp,
     ret |-> IF MapHas(ks, key) THEN ks[key] ELSE NoEntry,
     deleted |-> FALSE]

\* get(key): ret = NoEntry stands for null; deleted tells whether
\* this.delete(key) was called
DbGet(ks, exp, key, clock) ==
    IF isExpired(exp, key, clock)
    THEN [ks  |-> DbDelete(ks, exp, key).ks,
          exp |-> DbDelete(ks, exp, key).exp,
          ret |-> NoEntry,
          deleted |-> TRUE]
    ELSE [ks  |-> ks,
          exp |-> exp,
          ret |-> IF MapHas(ks, key) THEN ks[key] ELSE NoEntry,
          deleted |-> FALSE]

\* set that drops the TTL of the key it overwrites
DbSetClearingTtl(ks, exp, key, entry) ==
    [ks |-> MapSet(ks, key, entry), exp |-> MapDelete(exp, key)]

\* set(key, entry)
DbSet(ks, exp, key, entry) ==
    [ks |-> MapSet(ks, key, entry), exp |-> exp]

\* setExpiry without the existence check
DbSetExpiryUnguarded(ks, exp, key, timestampMs) ==
    [ks |-> ks, exp |-> MapSet(exp, key, timestampMs)]

\* setExpiry that keeps an expiry already recorded
DbSetExpiryKeepFirst(ks, exp, key, timestampMs) ==
    IF ~MapHas(ks, key) \/ MapHas(exp, key)
    THEN [ks |-> ks, exp |-> exp]
    ELSE [ks |-> ks, exp |-> MapSet(exp, key, timestampMs)]

\* setExpiry(key, timestampMs)
DbSetExpiry(ks, exp, key, timestampMs) ==
    IF ~MapHas(ks, key)
    THEN [ks |-> ks, exp |-> exp]
    ELSE [ks |-> ks, exp |-> MapSet(exp, key, timestampMs)]

(***************************************************************************)
(* What a call returned or threw.                                          *)
(***************************************************************************)
NoError == [kind |-> "", command |-> "", argsCount |-> Undefined,
            expected |-> <<>>, details |-> <<>>]

\* CommandError(message, meta) and its subclasses: meta is {command?, argsCount?};
\* `expected` keeps the numbers interpolated into the message
CommandError(kind, command, argsCount, expected) ==
    [kind |-> kind, command |-> command, argsCount |-> argsCount,
     expected |-> expected, details |-> <<>>]

\* addDetails(detail | detail[])
addDetails(err, details) == [err EXCEPT !.details = err.details \o details]

\* an unknown-command error that forgets which command was asked for
UnknownCommandErrorAnonymous(command) ==
    CommandError("UnknownCommandError", "", Undefined, <<>>)

\* new UnknownCommandError(command)
UnknownCommandError(command) ==
    CommandError("UnknownCommandError", command, Undefined, <<>>)

\* new ArityError(command, meta = {min: 0, max: 0, actual: 0})
ArityError(command, meta) ==
    CommandError("ArityError", command, meta.actual,
                 <<meta.min, meta.max, meta.actual>>)
ArityErrorDefaultMeta == [min |-> 0, max |-> 0, actual |-> 0]

\* new InvalidArgumentError(message, meta = {})
InvalidArgumentError(command) ==
    CommandError("InvalidArgumentError", command, Undefined, <<>>)

\* a plain Error, or the ReferenceError of reading an undeclared identifier
PlainError(kind) == CommandError(kind, "", Undefined, <<>>)

\* return values: kind is "void", "null", "entry", "boolean", "string",
\* "number" or "throw"
RetVoid == [kind |-> "void", entry |-> NoEntry, str |-> "", num |-> 0,
            bool |-> FALSE, err |-> NoError]
RetNull == [RetVoid EXCEPT !.kind = "null"]
RetEntry(e) == IF e = NoEntry THEN RetNull
               ELSE [RetVoid EXCEPT !.kind = "entry", !.entry = e]
RetBool(b) == [RetVoid EXCEPT !.kind = "boolean", !.bool = b]
RetString(s) == [RetVoid EXCEPT !.kind = "string", !.str = s]
RetNumber(n) == [RetVoid EXCEPT !.kind = "number", !.num = n]
RetThrow(e) == [RetVoid EXCEPT !.kind = "throw", !.err = e]
\* a Database instance is told by its place in Engine.databases
RetDatabase(index) == [RetVoid EXCEPT !.kind = "database", !.num = index]

\* placeholder where no command is passed or returned (the null of
\* CommandRegistry.get)
NoCommand == [name |-> "", arity |-> [min |-> 0, max |-> 0], isWrite |-> FALSE]
\* a Command instance returned; the instance is in the call's record
RetCommand == [RetVoid EXCEPT !.kind = "command"]

\* the record of a call: a Database method called on databases[db], a
\* dispatch, a registry call, or a clock advance; invoked lists, for a
\* dispatch, which of command.parse and command.execute it called, in
\* order; command is the Command passed to register or returned by get
Call(op, db, key, entry, ts, name, rawArgs, ret) ==
    [op |-> op, db |-> db, key |-> key, entry |-> entry, ts |-> ts,
     name |-> name, rawArgs |-> rawArgs, ret |-> ret, invoked |-> <<>>,
     command |-> NoCommand]

DbCall(op, db, key, entry, ts, ret) ==
    Call(op, db, key, entry, ts, "", <<>>, ret)

(***************************************************************************)
(* Entries handed to Database.set by direct callers: constructed with      *)
(* `new ValueEntry(type, value)` when the clock showed 0.  Callers that go *)
(* through engine.getDatabase(d) store the string entry "a".               *)
(***************************************************************************)
EntryPool == {ValueEntry(t, v, Undefined, 0) : t \in UsedTypes, v \in Values}
EngineEntryPool == {ValueEntry("string", "a", Undefined, 0)}

(***************************************************************************)
(* Steps: Database methods called on databases[d].                         *)
(***************************************************************************)
DbIndexes == 0..(dbCount - 1)

Put(d, r) ==
    /\ keyspace' = [keyspace EXCEPT ![d] = r.ks]
    /\ expirations' = [expirations EXCEPT ![d] = r.exp]

\* the history of stale entries after a step that ends at instant clock and
\* in which set(key, .) was called on databases[d] (d = -1: no set): a key
\* stays stale while its entry stays, and becomes stale when its entry is
\* in the keyspace at an instant at or after its recorded expiry
TrackStale(d, key, clock) ==
    stale' = [x \in DOMAIN keyspace' |->
                {k \in DOMAIN keyspace'[x] :
                    \/ k \in stale[x] /\ ~(x = d /\ k = key)
                    \/ isExpired(expirations'[x], k, clock)}]

\* the history of set and delete calls on databases[d]: op is "set",
\* "delete", "evict" (the delete called by get) or "" (neither was called)
Remember(d, op, key, entry) ==
    /\ lastSet' = [lastSet EXCEPT ![d] =
                      CASE op = "set" -> MapSet(@, key, entry)
                        [] op \in {"delete", "evict"} -> MapDelete(@, key)
                        [] OTHER -> @]
    /\ evicted' = [evicted EXCEPT ![d] =
                      CASE op = "evict" -> @ \cup {key}
                        [] op = "set" -> @ \ {key}
                        [] OTHER -> @]
    /\ TrackStale(IF op = "set" THEN d ELSE -1, key, now)

Get(d, key) ==
    LET r == DbGet(keyspace[d], expirations[d], key, now) IN
    /\ Put(d, r)
    /\ last' = DbCall("get", d, key, NoEntry, 0, RetEntry(r.ret))
    /\ Remember(d, IF r.deleted THEN "evict" ELSE "", key, NoEntry)
    /\ UNCHANGED <<now, dbCount, commands>>

\* set on an Engine whose array holds one Database instance at every index
SetEveryDatabase(d, key, entry) ==
    /\ keyspace' = [j \in DOMAIN keyspace |->
                       DbSet(keyspace[j], expirations[j], key, entry).ks]
    /\ expirations' = [j \in DOMAIN expirations |->
                          DbSet(keyspace[j], expirations[j], key, entry).exp]
    /\ last' = DbCall("set", d, key, entry, 0, RetVoid)
    /\ Remember(d, "set", key, entry)
    /\ UNCHANGED <<now, dbCount, commands>>

Set(d, key, entry) ==
    /\ Put(d, DbSet(keyspace[d], expirations[d], key, entry))
    /\ last' = DbCall("set", d, key, entry, 0, RetVoid)
    /\ Remember(d, "set", key, entry)
    /\ UNCHANGED <<now, dbCount, commands>>

Delete(d, key) ==
    /\ Put(d, DbDelete(keyspace[d], expirations[d], key))
    /\ last' = DbCall("delete", d, key, NoEntry, 0, RetVoid)
    /\ Remember(d, "delete", key, NoEntry)
    /\ UNCHANGED <<now, dbCount, commands>>

SetExpiry(d, key, timestampMs) ==
    /\ Put(d, DbSetExpiry(keyspace[d], expirations[d], key, timestampMs))
    /\ last' = DbCall("setExpiry", d, key, NoEntry, timestampMs, RetVoid)
    /\ UNCHANGED <<now, dbCount, commands, lastSet, evicted>>
    /\ TrackStale(-1, "", now)

IsExpired(d, key) ==
    /\ last' = DbCall("isExpired", d, key, NoEntry, 0,
                      RetBool(isExpired(expirations[d], key, now)))
    /\ UNCHANGED <<now, dbCount, keyspace, expirations, commands, lastSet, evicted>>
    /\ TrackStale(-1, "", now)

\* a caller holding the entry stored under key calls cloneWithValue(value)
\* on it; the clone is returned to the caller and stored nowhere
CloneWithValue(d, key, value) ==
    /\ MapHas(keyspace[d], key)
    /\ last' = Call("cloneWithValue", d, key, keyspace[d][key], 0, "", <<value>>,
                    RetEntry(cloneWithValue(keyspace[d][key], value, now)))
    /\ UNCHANGED <<now, dbCount, keyspace, expirations, commands, lastSet, evicted>>
    /\ TrackStale(-1, "", now)

\* the wall clock moves on by one second
AdvanceClock ==
    /\ now + MsPerSecond \in Instants
    /\ now' = now + MsPerSecond
    /\ last' = DbCall("tick", 0, "", NoEntry, 0, RetVoid)
    /\ UNCHANGED <<dbCount, keyspace, expirations, commands, lastSet, evicted>>
    /\ TrackStale(-1, "", now')

(***************************************************************************)
(* The commands registered at startup: name, arity and isWrite of each.    *)
(***************************************************************************)
SetCommand == [name |-> "SET", arity |-> [min |-> 2, max |-> 2], isWrite |-> TRUE]
GetCommand == [name |-> "GET", arity |-> [min |-> 1, max |-> 1], isWrite |-> FALSE]
ExpireCommand == [name |-> "EXPIRE", arity |-> [min |-> 2, max |-> 2], isWrite |-> TRUE]
\* further Command instances whose name is spelled in lower case; the first
\* takes an optional third argument
SetCommandLowerCase == [name |-> "set", arity |-> [min |-> 2, max |-> 3], isWrite |-> TRUE]
GetCommandLowerCase == [name |-> "get", arity |-> [min |-> 1, max |-> 1], isWrite |-> FALSE]

\* String.prototype.toUpperCase on the names used
toUpperCase(s) ==
    CASE s = "set"    -> "SET"
      [] s = "get"    -> "GET"
      [] s = "Expire" -> "EXPIRE"
      [] s = "nope"   -> "NOPE"
      [] OTHER        -> s

\* register that compares the name as spelled, without upper-casing it
RegistryRegisterCaseSensitive(cmds, command) ==
    IF MapHas(cmds, command.name)
    THEN [cmds |-> cmds, ret |-> RetThrow(PlainError("CommandError"))]
    ELSE [cmds |-> MapSet(cmds, toUpperCase(command.name), command), ret |-> RetVoid]

\* CommandRegistry.register(command): the registry afterwards, or the throw
RegistryRegister(cmds, command) ==
    LET commandName == toUpperCase(command.name) IN
    IF MapHas(cmds, commandName)
    THEN [cmds |-> cmds, ret |-> RetThrow(PlainError("CommandError"))]
    ELSE [cmds |-> MapSet(cmds, commandName, command), ret |-> RetVoid]

\* get that looks the name up as spelled, without upper-casing it
RegistryGetCaseSensitive(cmds, name) ==
    IF MapHas(cmds, name) THEN cmds[name] ELSE NoCommand

\* CommandRegistry.get(name): the command, or null
RegistryGet(cmds, name) ==
    IF MapHas(cmds, toUpperCase(name)) THEN cmds[toUpperCase(name)] ELSE NoCommand

\* registry.register(command) is called
Register(command) ==
    \E r \in {RegistryRegister(commands, command)} :
    /\ commands' = r.cmds
    /\ last' = [Call("register", 0, "", NoEntry, 0, command.name, <<>>, r.ret)
                   EXCEPT !.command = command]
    /\ UNCHANGED <<now, dbCount, keyspace, expirations, lastSet, evicted>>
    /\ TrackStale(-1, "", now)

\* the classes that have addDetails: CommandError and its subclasses
CommandErrorKinds ==
    {"CommandError", "UnknownCommandError", "ArityError", "InvalidArgumentError",
     "WrongTypeError"}

\* the caller that caught the error thrown by the last call calls
\* error.addDetails(detail) on it
AddDetails(detail) ==
    /\ last.ret.kind = "throw"
    /\ last.ret.err.kind \in CommandErrorKinds
    /\ Len(last.ret.err.details) < MaxDetails
    /\ last' = [last EXCEPT !.op = "addDetails",
                            !.ret.err = addDetails(@, <<detail>>)]
    /\ UNCHANGED <<now, dbCount, keyspace, expirations, commands, lastSet, evicted>>
    /\ TrackStale(-1, "", now)

\* registry.get(name) is called
Lookup(name) ==
    \E c \in {RegistryGet(commands, name)} :
    /\ last' = [Call("lookup", 0, "", NoEntry, 0, name, <<>>,
                      IF c = NoCommand THEN RetNull ELSE RetCommand)
                   EXCEPT !.command = c]
    /\ UNCHANGED <<now, dbCount, keyspace, expirations, commands, lastSet, evicted>>
    /\ TrackStale(-1, "", now)

\* the registry once SET, GET and EXPIRE are registered
StartupRegistry ==
    RegistryRegister(
        RegistryRegister(
            RegistryRegister(EmptyMap, SetCommand).cmds,
            GetCommand).cmds,
        ExpireCommand).cmds

(***************************************************************************)
(* Raw argument tokens (`unknown`): strings and numbers; a number is the   *)
(* fraction num/den, so that 1.5 is 3/2.                                   *)
(***************************************************************************)
Str(str) == [t |-> "string", s |-> str, num |-> 0, den |-> 1]
Num(n, d) == [t |-> "number", s |-> "", num |-> n, den |-> d]

\* typeof arg === "string"
IsString(arg) == arg.t = "string"
\* Number.isInteger(arg)
IsInteger(arg) == arg.t = "number" /\ arg.num % arg.den = 0
\* the value of an integer token
IntegerValue(arg) == arg.num \div arg.den

\* String(arg), on the tokens used
String(arg) ==
    IF IsString(arg) THEN arg.s
    ELSE CASE arg.num = 7  /\ arg.den = 1 -> "7"
           [] arg.num = 1  /\ arg.den = 1 -> "1"
           [] arg.num = 2  /\ arg.den = 1 -> "2"
           [] arg.num = 0  /\ arg.den = 1 -> "0"
           [] arg.num = -5 /\ arg.den = 1 -> "-5"
           [] arg.num = 3  /\ arg.den = 2 -> "1.5"
           [] OTHER -> "NaN"

\* parsed arguments: SET uses key and value, GET key, EXPIRE key and seconds
Args(key, value, seconds) == [key |-> key, value |-> value, seconds |-> seconds]
NoArgs == Args("", "", 0)
Parsed(args) == [ok |-> TRUE, args |-> args, err |-> NoError]
ParseThrow(err) == [ok |-> FALSE, args |-> NoArgs, err |-> err]

\* the set or delete call a command made on its database, for the history
Hist(op, key, entry) == [op |-> op, key |-> key, entry |-> entry]
NoHist == Hist("", "", NoEntry)

\* the outcome of a dispatch that threw before any Database call
Threw(ks, exp, err) == [ks |-> ks, exp |-> exp, ret |-> RetThrow(err), hist |-> NoHist]

\* the outcome r of a dispatch together with the command methods it called
Invoked(r, methods) ==
    [ks |-> r.ks, exp |-> r.exp, ret |-> r.ret, hist |-> r.hist, invoked |-> methods]

(***************************************************************************)
(* Engine.getDatabase(index)                                               *)
(***************************************************************************)
\* true when getDatabase throws Error('Database index out of range')
IndexOutOfRange(index, count) == index < 0 \/ index >= count

\* getDatabase that hands out the nearest Database for an index out of range
getDatabaseClamped(count, index) ==
    IF index < 0 THEN RetDatabase(0)
    ELSE IF index >= count THEN RetDatabase(count - 1)
    ELSE RetDatabase(index)

\* getDatabase(index) on an Engine of `count` databases
getDatabase(count, index) ==
    IF IndexOutOfRange(index, count)
    THEN RetThrow(PlainError("Error"))
    ELSE RetDatabase(index)

\* a caller asks the Engine for the Database at `index`
GetDatabase(index) ==
    /\ last' = DbCall("getDatabase", index, "", NoEntry, 0, getDatabase(dbCount, index))
    /\ UNCHANGED <<now, dbCount, keyspace, expirations, commands, lastSet, evicted>>
    /\ TrackStale(-1, "", now)

(***************************************************************************)
(* SetCommand (handlers/string.ts)                                         *)
(***************************************************************************)
\* parse(rawArgs): `errors` is declared nowhere, so reading it throws a
\* ReferenceError: inside map() at the first argument whose String() is
\* empty, and otherwise at `errors.length` after map() has returned.  No
\* path reaches the return statement.
SetParse(rawArgs) ==
    IF \E i \in 1..Len(rawArgs) : String(rawArgs[i]) = ""
    THEN ParseThrow(PlainError("ReferenceError"))
    ELSE ParseThrow(PlainError("ReferenceError"))

\* execute(engine, context, args)
SetExecute(ks, exp, count, dbIndex, args, clock) ==
    IF IndexOutOfRange(dbIndex, count)
    THEN Threw(ks, exp, PlainError("Error"))
    ELSE LET r == DbSet(ks[dbIndex], exp[dbIndex], args.key,
                        ValueEntry("string", args.value, Undefined, clock)) IN
         [ks  |-> [ks EXCEPT ![dbIndex] = r.ks],
          exp |-> [exp EXCEPT ![dbIndex] = r.exp],
          ret |-> RetString("OK"),
          hist |-> Hist("set", args.key,
                        ValueEntry("string", args.value, Undefined, clock))]

(***************************************************************************)
(* GetCommand and ExpireCommand, as laid down in docs/Low-Level.md 3.2/3.3 *)
(***************************************************************************)
\* new WrongTypeError(command, expectedType, actualType)
WrongTypeError(command, expectedType, actualType) ==
    addDetails(CommandError("WrongTypeError", command, Undefined, <<>>),
               <<[expectedType |-> expectedType, actualType |-> actualType]>>)

GetParse(rawArgs) ==
    IF ~IsString(rawArgs[1])
    THEN ParseThrow(InvalidArgumentError("GET"))
    ELSE Parsed(Args(rawArgs[1].s, "", 0))

GetExecute(ks, exp, count, dbIndex, args, clock) ==
    IF IndexOutOfRange(dbIndex, count)
    THEN Threw(ks, exp, PlainError("Error"))
    ELSE LET r == DbGet(ks[dbIndex], exp[dbIndex], args.key, clock) IN
         [ks  |-> [ks EXCEPT ![dbIndex] = r.ks],
          exp |-> [exp EXCEPT ![dbIndex] = r.exp],
          ret |-> IF r.ret = NoEntry THEN RetNull
                  ELSE IF r.ret.type # "string"
                       THEN RetThrow(WrongTypeError("GET", "string", r.ret.type))
                       ELSE RetString(r.ret.value),
          hist |-> IF r.deleted THEN Hist("evict", args.key, NoEntry) ELSE NoHist]

ExpireParse(rawArgs) ==
    IF ~IsString(rawArgs[1])
    THEN ParseThrow(InvalidArgumentError("EXPIRE"))
    ELSE IF ~(IsInteger(rawArgs[2]) /\ IntegerValue(rawArgs[2]) > 0)
         THEN ParseThrow(InvalidArgumentError("EXPIRE"))
         ELSE Parsed(Args(rawArgs[1].s, "", IntegerValue(rawArgs[2])))

ExpireExecute(ks, exp, count, dbIndex, args, clock) ==
    IF IndexOutOfRange(dbIndex, count)
    THEN Threw(ks, exp, PlainError("Error"))
    ELSE LET r == DbGet(ks[dbIndex], exp[dbIndex], args.key, clock) IN
         IF r.ret = NoEntry
         THEN [ks  |-> [ks EXCEPT ![dbIndex] = r.ks],
               exp |-> [exp EXCEPT ![dbIndex] = r.exp],
               ret |-> RetNumber(0),
               hist |-> IF r.deleted THEN Hist("evict", args.key, NoEntry) ELSE NoHist]
         ELSE LET x == DbSetExpiry(r.ks, r.exp, args.key,
                                   clock + args.seconds * MsPerSecond) IN
              [ks  |-> [ks EXCEPT ![dbIndex] = x.ks],
               exp |-> [exp EXCEPT ![dbIndex] = x.exp],
               ret |-> RetNumber(1),
               hist |-> NoHist]

\* command.parse(rawArgs) and command.execute(engine, context, args)
CommandParse(command, rawArgs) ==
    CASE toUpperCase(command.name) = "SET" -> SetParse(rawArgs)
      [] toUpperCase(command.name) = "GET" -> GetParse(rawArgs)
      [] toUpperCase(command.name) = "EXPIRE" -> ExpireParse(rawArgs)

CommandExecute(command, ks, exp, count, dbIndex, args, clock) ==
    CASE toUpperCase(command.name) = "SET" ->
             SetExecute(ks, exp, count, dbIndex, args, clock)
      [] toUpperCase(command.name) = "GET" ->
             GetExecute(ks, exp, count, dbIndex, args, clock)
      [] toUpperCase(command.name) = "EXPIRE" ->
             ExpireExecute(ks, exp, count, dbIndex, args, clock)

(***************************************************************************)
(* CommandDispatcher.dispatch(commandName, rawArgs, context)               *)
(***************************************************************************)
\* dispatch that catches what parse and execute throw: a parse error is
\* rethrown as an InvalidArgumentError, an execute error becomes a null reply
dispatchCatching(cmds, ks, exp, count, commandName, rawArgs, dbIndex, clock) ==
    LET command == RegistryGet(cmds, commandName) IN
    IF command = NoCommand
    THEN Invoked(Threw(ks, exp, UnknownCommandError(commandName)), <<>>)
    ELSE IF Len(rawArgs) < command.arity.min \/ Len(rawArgs) > command.arity.max
    THEN Invoked(Threw(ks, exp, ArityError(commandName, ArityErrorDefaultMeta)), <<>>)
    ELSE LET p == CommandParse(command, rawArgs) IN
         IF ~p.ok
         THEN Invoked(Threw(ks, exp, InvalidArgumentError(commandName)), <<"parse">>)
         ELSE LET x == CommandExecute(command, ks, exp, count, dbIndex, p.args, clock) IN
              Invoked(IF x.ret.kind = "throw" THEN [x EXCEPT !.ret = RetNull] ELSE x,
                      <<"parse", "execute">>)

\* dispatch that runs execute on the raw arguments before it lets the
\* error thrown by parse out
dispatchExecuteFirst(cmds, ks, exp, count, commandName, rawArgs, dbIndex, clock) ==
    LET command == RegistryGet(cmds, commandName) IN
    IF command = NoCommand
    THEN Invoked(Threw(ks, exp, UnknownCommandError(commandName)), <<>>)
    ELSE IF Len(rawArgs) < command.arity.min \/ Len(rawArgs) > command.arity.max
    THEN Invoked(Threw(ks, exp, ArityError(commandName, ArityErrorDefaultMeta)), <<>>)
    ELSE LET p == CommandParse(command, rawArgs) IN
         IF ~p.ok
         THEN LET x == CommandExecute(command, ks, exp, count, dbIndex,
                           Args(String(rawArgs[1]),
                                IF Len(rawArgs) > 1 THEN String(rawArgs[2]) ELSE "",
                                IF Len(rawArgs) > 1 /\ IsInteger(rawArgs[2])
                                THEN IntegerValue(rawArgs[2]) ELSE 0),
                           clock) IN
              Invoked([x EXCEPT !.ret = RetThrow(p.err)], <<"execute", "parse">>)
         ELSE Invoked(CommandExecute(command, ks, exp, count, dbIndex, p.args, clock),
                      <<"parse", "execute">>)

\* dispatch whose arity check turns away an argument count equal to min
dispatchArityExclusive(cmds, ks, exp, count, commandName, rawArgs, dbIndex, clock) ==
    LET command == RegistryGet(cmds, commandName) IN
    IF command = NoCommand
    THEN Invoked(Threw(ks, exp, UnknownCommandError(commandName)), <<>>)
    ELSE IF Len(rawArgs) <= command.arity.min \/ Len(rawArgs) > command.arity.max
    THEN Invoked(Threw(ks, exp, ArityError(commandName, ArityErrorDefaultMeta)), <<>>)
    ELSE LET p == CommandParse(command, rawArgs) IN
         IF ~p.ok
         THEN Invoked(Threw(ks, exp, p.err), <<"parse">>)
         ELSE Invoked(CommandExecute(command, ks, exp, count, dbIndex, p.args, clock),
                      <<"parse", "execute">>)

\* dispatch that hands the raw arguments to execute without parsing them
dispatchWithoutParse(cmds, ks, exp, count, commandName, rawArgs, dbIndex, clock) ==
    LET command == RegistryGet(cmds, commandName) IN
    IF command = NoCommand
    THEN Invoked(Threw(ks, exp, UnknownCommandError(commandName)), <<>>)
    ELSE IF Len(rawArgs) < command.arity.min \/ Len(rawArgs) > command.arity.max
    THEN Invoked(Threw(ks, exp, ArityError(commandName, ArityErrorDefaultMeta)), <<>>)
    ELSE Invoked(CommandExecute(command, ks, exp, count, dbIndex,
                                Args(String(rawArgs[1]),
                                     IF Len(rawArgs) > 1 THEN String(rawArgs[2]) ELSE "",
                                     IF Len(rawArgs) > 1 /\ IsInteger(rawArgs[2])
                                     THEN IntegerValue(rawArgs[2]) ELSE 0),
                                clock),
                 <<"execute">>)

dispatch(cmds, ks, exp, count, commandName, rawArgs, dbIndex, clock) ==
    LET command == RegistryGet(cmds, commandName) IN
    IF command = NoCommand
    THEN Invoked(Threw(ks, exp, UnknownCommandError(commandName)), <<>>)
    ELSE IF Len(rawArgs) < command.arity.min \/ Len(rawArgs) > command.arity.max
    THEN Invoked(Threw(ks, exp, ArityError(commandName, ArityErrorDefaultMeta)), <<>>)
    ELSE LET p == CommandParse(command, rawArgs) IN
         IF ~p.ok
         THEN Invoked(Threw(ks, exp, p.err), <<"parse">>)
         ELSE Invoked(CommandExecute(command, ks, exp, count, dbIndex, p.args, clock),
                      <<"parse", "execute">>)

Dispatch(commandName, rawArgs, dbIndex) ==
    \E r \in {dispatch(commands, keyspace, expirations, dbCount,
                      commandName, rawArgs, dbIndex, now)} :
    /\ keyspace' = r.ks
    /\ expirations' = r.exp
    /\ last' = [Call("dispatch", dbIndex, "", NoEntry, 0, commandName, rawArgs, r.ret)
                   EXCEPT !.invoked = r.invoked]
    /\ IF r.hist = NoHist
       THEN UNCHANGED <<lastSet, evicted>> /\ TrackStale(-1, "", now)
       ELSE Remember(dbIndex, r.hist.op, r.hist.key, r.hist.entry)
    /\ UNCHANGED <<now, dbCount, commands>>

(***************************************************************************)
(* A single Database (an Engine of one database) and the calls made on it. *)
(***************************************************************************)
InitCall == DbCall("init", 0, "", NoEntry, 0, RetVoid)

\* new Engine(n): n databases, each with both maps empty
EngineInit(n) ==
    /\ dbCount = n
    /\ keyspace = [d \in 0..(n - 1) |-> EmptyMap]
    /\ expirations = [d \in 0..(n - 1) |-> EmptyMap]
    /\ lastSet = [d \in 0..(n - 1) |-> EmptyMap]
    /\ evicted = [d \in 0..(n - 1) |-> {}]
    /\ stale = [d \in 0..(n - 1) |-> {}]

Init ==
    /\ now = 0
    /\ EngineInit(1)
    /\ commands = StartupRegistry
    /\ last = InitCall

Next ==
    \/ \E k \in Keys : Get(0, k)
    \/ \E k \in Keys, e \in EntryPool : Set(0, k, e)
    \/ \E k \in Keys : Delete(0, k)
    \/ \E k \in Keys, t \in Timestamps : SetExpiry(0, k, t)
    \/ \E k \in Keys : IsExpired(0, k)
    \/ \E k \in Keys, v \in Values : CloneWithValue(0, k, v)
    \/ AdvanceClock

Spec == Init /\ [][Next]_vars


(***************************************************************************)
(* Properties of the Database, checked under Spec.                         *)
(***************************************************************************)
\* m2 is m1 at every key but k
SameExcept(m2, m1, k) ==
    /\ (DOMAIN m2) \ {k} = (DOMAIN m1) \ {k}
    /\ \A x \in (DOMAIN m1) \ {k} : m2[x] = m1[x]

\* C1: in every reachable state every key of the expirations mapping of a
\* Database is also a key of its keyspace mapping.
ExpirationsWithinKeyspace ==
    \A d \in DOMAIN expirations : DOMAIN expirations[d] \subseteq DOMAIN keyspace[d]

\* an expiry is recorded and a second key was deleted after that
ExpiryRecorded ==
    /\ last.op = "delete"
    /\ \E k \in Keys \ {last.key} : MapHas(expirations[last.db], k)

\* C3: set(key, entry) leaves expirations as it was, for every key, and
\* changes the keyspace at `key` only, which then maps to `entry`.
SetTouchesKeyspaceOnly ==
    [][last'.op = "set" =>
        /\ expirations' = expirations
        /\ MapHas(keyspace'[last'.db], last'.key)
        /\ keyspace'[last'.db][last'.key] = last'.entry
        /\ SameExcept(keyspace'[last'.db], keyspace[last'.db], last'.key)
        /\ \A o \in (DOMAIN keyspace) \ {last'.db} : keyspace'[o] = keyspace[o]]_vars

\* set has overwritten a key that carries an expiry
SetOverExpiry ==
    /\ last.op = "set"
    /\ MapHas(expirations[last.db], last.key)
    /\ keyspace[last.db][last.key] = last.entry

\* C4: get(k) of a key whose expiry is <= the current time returns absent
\* and leaves k in neither mapping; from then on, until k is set again,
\* every get(k) returns absent.
GetEvictsExpired ==
    /\ [][(/\ last'.op = "get"
           /\ MapHas(expirations[last'.db], last'.key)
           /\ expirations[last'.db][last'.key] <= now)
          => /\ last'.ret.kind = "null"
             /\ ~MapHas(keyspace'[last'.db], last'.key)
             /\ ~MapHas(expirations'[last'.db], last'.key)]_vars
    /\ [](last.op = "get" /\ last.key \in evicted[last.db]
          => last.ret.kind = "null")

\* get has returned absent for a key it, or an earlier get, evicted
GetAfterExpiry ==
    /\ last.op = "get"
    /\ last.key \in evicted[last.db]
    /\ last.ret.kind = "null"
    /\ ~MapHas(keyspace[last.db], last.key)
    /\ ~MapHas(expirations[last.db], last.key)

\* C5: for a key with no expiry recorded, get(k) returns the entry of the
\* most recent set(k, .) that no delete(k) has followed, and absent when
\* there is none (the eviction of an expired key is a call of delete(k)).
GetReturnsLastSet ==
    [][(last'.op = "get" /\ ~MapHas(expirations[last'.db], last'.key))
       => IF MapHas(lastSet[last'.db], last'.key)
          THEN /\ last'.ret.kind = "entry"
               /\ last'.ret.entry = lastSet[last'.db][last'.key]
          ELSE last'.ret.kind = "null"]_vars

\* get has returned the entry of a key that has no expiry
GetFoundEntry ==
    /\ last.op = "get"
    /\ last.ret.kind = "entry"
    /\ ~MapHas(expirations[last.db], last.key)
    /\ \E k \in Keys \ {last.key} : ~MapHas(lastSet[last.db], k)

\* C6: delete(k) leaves k in neither mapping, changes no other key's entry
\* or expiry, and changes nothing when k was in neither mapping.
DeleteRemovesOnlyKey ==
    [][last'.op = "delete" =>
        /\ ~MapHas(keyspace'[last'.db], last'.key)
        /\ ~MapHas(expirations'[last'.db], last'.key)
        /\ SameExcept(keyspace'[last'.db], keyspace[last'.db], last'.key)
        /\ SameExcept(expirations'[last'.db], expirations[last'.db], last'.key)
        /\ \A o \in (DOMAIN keyspace) \ {last'.db} :
              keyspace'[o] = keyspace[o] /\ expirations'[o] = expirations[o]
        /\ (~MapHas(keyspace[last'.db], last'.key)
              /\ ~MapHas(expirations[last'.db], last'.key))
           => (keyspace' = keyspace /\ expirations' = expirations)]_vars

\* delete has removed a key that had been set, another key keeping its expiry
DeletedBesideExpiry ==
    /\ last.op = "delete"
    /\ ~MapHas(keyspace[last.db], last.key)
    /\ ~MapHas(lastSet[last.db], last.key)
    /\ \E k \in Keys \ {last.key} :
          MapHas(expirations[last.db], k) /\ MapHas(keyspace[last.db], k)

\* C7: setExpiry(k, t) changes nothing when k is not in the keyspace;
\* otherwise the expiry of k becomes t, and neither the keyspace nor the
\* expiry of another key changes.
SetExpiryOnlyOnPresentKey ==
    [][last'.op = "setExpiry" =>
        /\ keyspace' = keyspace
        /\ ~MapHas(keyspace[last'.db], last'.key) => expirations' = expirations
        /\ MapHas(keyspace[last'.db], last'.key) =>
              /\ MapHas(expirations'[last'.db], last'.key)
              /\ expirations'[last'.db][last'.key] = last'.ts
              /\ SameExcept(expirations'[last'.db], expirations[last'.db], last'.key)
              /\ \A o \in (DOMAIN expirations) \ {last'.db} :
                    expirations'[o] = expirations[o]]_vars

\* setExpiry has recorded its timestamp for a present key, beside another
\* key's different expiry
SetExpiryRecorded ==
    /\ last.op = "setExpiry"
    /\ MapHas(expirations[last.db], last.key)
    /\ expirations[last.db][last.key] = last.ts
    /\ \E k \in Keys \ {last.key} :
          MapHas(expirations[last.db], k) /\ expirations[last.db][k] # last.ts

(***************************************************************************)
(* An Engine of MaxDbCount databases behind the dispatcher; callers also   *)
(* reach the databases through engine.getDatabase(d).                      *)
(***************************************************************************)
\* the (commandName, rawArgs) pairs dispatched: those that pass lookup, arity
\* check and the documented argument validation ...
WellFormed ==
    {<<"SET", <<Str(k), Str(v)>>>> : k \in EngineKeys, v \in {"a", ""}}
    \cup {<<"GET", <<Str(k)>>>> : k \in EngineKeys}
    \cup {<<"EXPIRE", <<Str(k), Num(sec, 1)>>>> : k \in EngineKeys, sec \in 1..MaxSeconds}

\* the same commands under names in another letter case
CaseVariants ==
    {<<"get", <<Str(k)>>>> : k \in EngineKeys}
    \cup {<<"Expire", <<Str(k), Num(1, 1)>>>> : k \in EngineKeys}
    \cup {<<"set", <<Str(k), Str("a")>>>> : k \in EngineKeys}

\* EXPIRE with a seconds argument that is not a positive integer
InvalidSeconds ==
    {<<"EXPIRE", <<Str(k), sec>>>> :
        k \in EngineKeys, sec \in {Num(0, 1), Num(-5, 1), Num(3, 2), Str("abc")}}

\* ... and those that do not
IllFormed ==
    {<<n, <<Str(k)>>>> : n \in {"NOPE", "nope"}, k \in EngineKeys}
    \cup {<<"SET", <<Str(k)>>>> : k \in EngineKeys}
    \cup {<<"SET", <<Str(k), Str("a"), Str("a")>>>> : k \in EngineKeys}
    \cup {<<"SET", <<Num(7, 1), Str("a")>>>>}
    \cup {<<"GET", <<Num(7, 1)>>>>, <<"GET", <<>>>>}
    \cup InvalidSeconds
    \cup {<<"EXPIRE", <<Num(7, 1), Num(1, 1)>>>>}

\* context.dbIndex: every valid index, one below and one above
ContextIndexes == -1..dbCount
\* indexes handed to getDatabase: also dbCount + 1
ProbeIndexes == -1..(dbCount + 1)

InitEngine ==
    /\ now = 0
    /\ EngineInit(MaxDbCount)
    /\ commands = StartupRegistry
    /\ last = InitCall

NextEngine ==
    \/ \E inv \in WellFormed, i \in ContextIndexes : Dispatch(inv[1], inv[2], i)
    \/ \E inv \in CaseVariants \cup IllFormed : Dispatch(inv[1], inv[2], 0)
    \/ \E inv \in InvalidSeconds : Dispatch(inv[1], inv[2], -1)
    \/ \E d \in DbIndexes, k \in EngineKeys, e \in EngineEntryPool : Set(d, k, e)
    \/ \E d \in DbIndexes, k \in EngineKeys : Delete(d, k)
    \/ \E i \in ProbeIndexes : GetDatabase(i)
    \/ AdvanceClock

SpecEngine == InitEngine /\ [][NextEngine]_vars

(***************************************************************************)
(* An Engine of one database behind the dispatcher, whose key is also      *)
(* given list entries by callers of engine.getDatabase(0).set.             *)
(***************************************************************************)
NextTyped ==
    \/ \E inv \in WellFormed \cup CaseVariants \cup IllFormed, i \in ContextIndexes :
          Dispatch(inv[1], inv[2], i)
    \/ \E k \in EngineKeys, e \in EntryPool : Set(0, k, e)
    \/ \E k \in EngineKeys : Delete(0, k)
    \/ AdvanceClock

SpecTyped == Init /\ [][NextTyped]_vars

(***************************************************************************)
(* A registry that starts empty and is filled by register calls, in front  *)
(* of an Engine of one database and the dispatcher.                        *)
(***************************************************************************)
\* the Command instances handed to register
CommandPool ==
    {SetCommand, GetCommand, ExpireCommand, SetCommandLowerCase, GetCommandLowerCase}

\* names looked up: canonical, in another letter case, and never registered
LookupNames == {"SET", "set", "GET", "get", "EXPIRE", "Expire", "NOPE", "nope"}

\* the (commandName, rawArgs) pairs dispatched while the registry fills
RegistryInputs ==
    {<<n, <<Str(k), Str("a")>>>> : n \in {"SET", "set"}, k \in EngineKeys}
    \cup {<<n, <<Str(k)>>>> : n \in {"SET", "set", "GET", "get", "nope"}, k \in EngineKeys}
    \cup {<<n, <<Str(k), Str("a"), Str("a")>>>> : n \in {"SET", "set"}, k \in EngineKeys}
    \cup {<<n, <<Str(k), Num(1, 1)>>>> : n \in {"EXPIRE", "Expire"}, k \in EngineKeys}

InitRegistry ==
    /\ now = 0
    /\ EngineInit(1)
    /\ commands = EmptyMap
    /\ last = InitCall

NextRegistry ==
    \/ \E c \in CommandPool : Register(c)
    \/ \E n \in LookupNames : Lookup(n)
    \/ \E inv \in RegistryInputs : Dispatch(inv[1], inv[2], 0)
    \/ \E k \in EngineKeys, e \in EngineEntryPool : Set(0, k, e)
    \/ AddDetails([detailMsg |-> "note"])
    \/ AdvanceClock

SpecRegistry == InitRegistry /\ [][NextRegistry]_vars

(***************************************************************************)
(* Properties of the commands, checked under SpecEngine.                   *)
(***************************************************************************)
\* the call c is a dispatch of the command `name`, in any letter case, with
\* a string key, and for EXPIRE a positive integer, on a valid database
IsCommand(c, name) ==
    /\ c.op = "dispatch"
    /\ toUpperCase(c.name) = name
    /\ Len(c.rawArgs) = (IF name = "GET" THEN 1 ELSE 2)
    /\ c.rawArgs[1].t = "string"
    /\ name = "SET" => c.rawArgs[2].t = "string"
    /\ name = "EXPIRE" => (/\ c.rawArgs[2].t = "number"
                           /\ c.rawArgs[2].den = 1
                           /\ c.rawArgs[2].num > 0)
    /\ c.db \in DbIndexes

KeyOf(c) == c.rawArgs[1].s

\* the expiry recorded for key k in map exp, Undefined when there is none
ExpiryOf(exp, k) == IF k \in DOMAIN exp THEN exp[k] ELSE Undefined

\* C2: a SET k v immediately followed by GET k makes that GET return
\* exactly v, and the expiry recorded for k before the SET is the same
\* after the SET and after the GET.
SetThenGetReturnsValue ==
    /\ [][IsCommand(last', "SET") => expirations' = expirations]_vars
    /\ [][(/\ IsCommand(last, "SET")
           /\ IsCommand(last', "GET")
           /\ last'.db = last.db
           /\ KeyOf(last') = KeyOf(last))
          => /\ last'.ret.kind = "string"
             /\ last'.ret.str = last.rawArgs[2].s
             /\ ExpiryOf(expirations'[last.db], KeyOf(last))
                  = ExpiryOf(expirations[last.db], KeyOf(last))]_vars

\* C8: EXPIRE k s for a key that is absent (never set, deleted, or past its
\* expiry) returns 0 and records no expiry for k, and a GET k that follows
\* returns absent.
ExpireOnAbsentKey ==
    /\ [][(/\ IsCommand(last', "EXPIRE")
           /\ \/ ~MapHas(lastSet[last'.db], KeyOf(last'))
              \/ /\ MapHas(expirations[last'.db], KeyOf(last'))
                 /\ expirations[last'.db][KeyOf(last')] <= now)
          => /\ last'.ret.kind = "number"
             /\ last'.ret.num = 0
             /\ ~MapHas(expirations'[last'.db], KeyOf(last'))]_vars
    /\ [][(/\ IsCommand(last, "EXPIRE")
           /\ last.ret.kind = "number"
           /\ last.ret.num = 0
           /\ IsCommand(last', "GET")
           /\ last'.db = last.db
           /\ KeyOf(last') = KeyOf(last))
          => last'.ret.kind = "null"]_vars

\* EXPIRE has returned 0 for a key that was set and whose expiry had passed
ExpireFoundExpired ==
    /\ IsCommand(last, "EXPIRE")
    /\ last.ret.kind = "number"
    /\ last.ret.num = 0
    /\ KeyOf(last) \in evicted[last.db]
    /\ ~MapHas(expirations[last.db], KeyOf(last))

\* the seconds token is zero, negative or not an integer
BadSeconds(arg) ==
    \/ arg.t # "number"
    \/ arg.num % arg.den # 0
    \/ arg.num * arg.den <= 0

\* C9: EXPIRE with seconds zero, negative or not an integer throws an
\* invalid-argument error, and no Database's keyspace or expirations
\* mapping differs from what it was before the dispatch.
ExpireRejectsBadSeconds ==
    [][(/\ last'.op = "dispatch"
        /\ toUpperCase(last'.name) = "EXPIRE"
        /\ Len(last'.rawArgs) = 2
        /\ BadSeconds(last'.rawArgs[2]))
       => /\ last'.ret.kind = "throw"
          /\ last'.ret.err.kind = "InvalidArgumentError"
          /\ keyspace' = keyspace
          /\ expirations' = expirations]_vars

\* EXPIRE k 0 was rejected while k is stored with an expiry
BadSecondsRejected ==
    /\ last.op = "dispatch"
    /\ toUpperCase(last.name) = "EXPIRE"
    /\ Len(last.rawArgs) = 2
    /\ last.rawArgs[2] = Num(0, 1)
    /\ last.ret.kind = "throw"
    /\ last.db \in DbIndexes
    /\ MapHas(expirations[last.db], KeyOf(last))

\* C10: EXPIRE k s at time now for a key that is present and not expired
\* returns 1 and leaves the expiry of k at now + s*1000, whatever it was,
\* with every stored value and every other expiry unchanged; a GET k finds
\* the entry (and returns its value when it is a string) at every time
\* before the recorded expiry and returns absent from that instant on.
ExpireRecordsDeadline ==
    /\ [][(/\ IsCommand(last', "EXPIRE")
           /\ MapHas(keyspace[last'.db], KeyOf(last'))
           /\ ~(/\ MapHas(expirations[last'.db], KeyOf(last'))
                /\ expirations[last'.db][KeyOf(last')] <= now))
          => /\ last'.ret.kind = "number"
             /\ last'.ret.num = 1
             /\ MapHas(expirations'[last'.db], KeyOf(last'))
             /\ expirations'[last'.db][KeyOf(last')]
                  = now + last'.rawArgs[2].num * 1000
             /\ keyspace' = keyspace
             /\ SameExcept(expirations'[last'.db], expirations[last'.db], KeyOf(last'))
             /\ \A o \in (DOMAIN expirations) \ {last'.db} :
                   expirations'[o] = expirations[o]]_vars
    /\ [][(/\ IsCommand(last', "GET")
           /\ MapHas(expirations[last'.db], KeyOf(last')))
          => IF now < expirations[last'.db][KeyOf(last')]
             THEN /\ last'.ret.kind # "null"
                  /\ keyspace[last'.db][KeyOf(last')].type = "string"
                       => /\ last'.ret.kind = "string"
                          /\ last'.ret.str = keyspace[last'.db][KeyOf(last')].value
                  /\ keyspace' = keyspace
                  /\ expirations' = expirations
             ELSE /\ last'.ret.kind = "null"
                  /\ ~MapHas(keyspace'[last'.db], KeyOf(last'))]_vars

\* EXPIRE has returned 1 and the expiry of the key is now + s*1000, after
\* the clock has moved
ExpireSetDeadline ==
    /\ IsCommand(last, "EXPIRE")
    /\ last.ret.kind = "number"
    /\ last.ret.num = 1
    /\ now > 0
    /\ MapHas(expirations[last.db], KeyOf(last))
    /\ expirations[last.db][KeyOf(last)] = now + last.rawArgs[2].num * 1000

(***************************************************************************)
(* Properties of the dispatcher, checked under SpecTyped (C11, C12, C14,   *)
(* C15) and SpecEngine (C13, C16, C17).                                    *)
(***************************************************************************)
\* the call c is a dispatch that threw an error of the given kind
ThrewKind(c, kind) ==
    c.op = "dispatch" /\ c.ret.kind = "throw" /\ c.ret.err.kind = kind

\* C11: dispatch of a name that is not in the registry throws an
\* unknown-command error carrying the name as it was requested, and calls
\* neither parse nor execute of any command.
UnknownCommandRejected ==
    [][(last'.op = "dispatch" /\ ~MapHas(commands, toUpperCase(last'.name)))
       => /\ ThrewKind(last', "UnknownCommandError")
          /\ last'.ret.err.command = last'.name
          /\ last'.invoked = <<>>]_vars

\* the lower-case name "nope" was dispatched and came back in the error
UnknownCommandSeen ==
    /\ last.op = "dispatch"
    /\ last.name = "nope"
    /\ ThrewKind(last, "UnknownCommandError")
    /\ last.ret.err.command = "nope"

\* C12: for a registered command of arity [min, max], a dispatch with fewer
\* than min or more than max raw arguments throws an arity error and calls
\* neither parse nor execute; with min <= count <= max it throws no arity
\* error.  SET with 1 or 3 arguments is an arity error.
ArityCheckedBeforeParse ==
    [][(last'.op = "dispatch" /\ MapHas(commands, toUpperCase(last'.name)))
       => LET arity == commands[toUpperCase(last'.name)].arity
              n == Len(last'.rawArgs) IN
          IF n < arity.min \/ n > arity.max
          THEN ThrewKind(last', "ArityError") /\ last'.invoked = <<>>
          ELSE ~ThrewKind(last', "ArityError")]_vars

\* SET with three arguments was turned away with an arity error
SetArityRejected ==
    /\ last.op = "dispatch"
    /\ last.name = "SET"
    /\ Len(last.rawArgs) = 3
    /\ ThrewKind(last, "ArityError")
    /\ last.invoked = <<>>

\* C13: the arity error thrown by dispatch carries the command name, the
\* min and max the command declares, and the number of raw arguments of
\* that dispatch.
ArityErrorCarriesCounts ==
    ThrewKind(last, "ArityError")
    => LET arity == commands[toUpperCase(last.name)].arity IN
       /\ last.ret.err.command = last.name
       /\ last.ret.err.expected = <<arity.min, arity.max, Len(last.rawArgs)>>
       /\ last.ret.err.argsCount = Len(last.rawArgs)

\* C14: a dispatch that throws (unknown command, arity, invalid argument,
\* wrong type, database index out of range, or anything else) leaves the
\* keyspace and expirations of every Database and the registry as they were
\* before it.
FailedDispatchChangesNothing ==
    [][(last'.op = "dispatch" /\ last'.ret.kind = "throw")
       => /\ keyspace' = keyspace
          /\ expirations' = expirations
          /\ commands' = commands]_vars

\* GET threw a wrong-type error for a key stored with an expiry
WrongTypeLeftEntry ==
    /\ ThrewKind(last, "WrongTypeError")
    /\ last.db \in DbIndexes
    /\ MapHas(keyspace[last.db], last.rawArgs[1].s)
    /\ MapHas(expirations[last.db], last.rawArgs[1].s)

\* C15: what parse or execute of the command throws is what dispatch throws,
\* the same error in kind and metadata; after parse has thrown, execute is
\* not called.
ErrorsReachCaller ==
    [][(/\ last'.op = "dispatch"
        /\ MapHas(commands, toUpperCase(last'.name))
        /\ ~ThrewKind(last', "ArityError"))
       => LET command == commands[toUpperCase(last'.name)]
              p == CommandParse(command, last'.rawArgs) IN
          IF ~p.ok
          THEN last'.ret = RetThrow(p.err) /\ last'.invoked = <<"parse">>
          ELSE LET x == CommandExecute(command, keyspace, expirations, dbCount,
                                       last'.db, p.args, now) IN
               x.ret.kind = "throw" => last'.ret = x.ret]_vars

\* execute threw for a context index that is out of range and dispatch
\* threw that error
ExecuteErrorDelivered ==
    /\ ThrewKind(last, "Error")
    /\ last.invoked = <<"parse", "execute">>
    /\ last.db \notin DbIndexes

\* C16: SET k "" throws nothing and returns "OK", and a GET k that follows
\* it returns the empty string.
SetAcceptsEmptyValue ==
    /\ [][(IsCommand(last', "SET") /\ last'.rawArgs[2].s = "")
          => last'.ret = RetString("OK")]_vars
    /\ [][(/\ IsCommand(last, "SET")
           /\ last.rawArgs[2].s = ""
           /\ IsCommand(last', "GET")
           /\ last'.db = last.db
           /\ KeyOf(last') = KeyOf(last))
          => last'.ret = RetString("")]_vars

\* the raw arguments of call c that are not strings
Offending(c) == {i \in 1..Len(c.rawArgs) : c.rawArgs[i].t # "string"}

\* C17: SET with two raw arguments of which one or both are not strings
\* throws one invalid-argument error whose details list every offending
\* argument, and stores nothing under any key.
SetRejectsNonStrings ==
    [][(/\ last'.op = "dispatch"
        /\ toUpperCase(last'.name) = "SET"
        /\ Len(last'.rawArgs) = 2
        /\ Offending(last') # {})
       => /\ ThrewKind(last', "InvalidArgumentError")
          /\ Len(last'.ret.err.details) = Cardinality(Offending(last'))
          /\ keyspace' = keyspace]_vars

(***************************************************************************)
(* Properties of GET over typed entries, checked under SpecTyped.          *)
(***************************************************************************)
\* key k of map ks is stored and its expiry, if any, lies after clock
Live(ks, exp, k, clock) ==
    MapHas(ks, k) /\ ~(MapHas(exp, k) /\ exp[k] <= clock)

\* C18: GET k of a key whose entry is present, not expired and tagged with
\* a type other than "string" throws a wrong-type error naming the command,
\* the expected type "string" and the actual type; GET returns a value only
\* for a live entry tagged "string", and then that entry's value.
GetRejectsWrongType ==
    [][IsCommand(last', "GET")
       => LET k == KeyOf(last')
              ks == keyspace[last'.db]
              live == Live(ks, expirations[last'.db], k, now) IN
          /\ (live /\ ks[k].type # "string")
                => /\ ThrewKind(last', "WrongTypeError")
                   /\ last'.ret.err.command = "GET"
                   /\ last'.ret.err.details =
                         <<[expectedType |-> "string", actualType |-> ks[k].type]>>
          /\ last'.ret.kind = "string"
                => /\ live
                   /\ ks[k].type = "string"
                   /\ last'.ret.str = ks[k].value]_vars

\* GET threw a wrong-type error that names the type "list" of the entry
GetFoundList ==
    /\ IsCommand(last, "GET")
    /\ ThrewKind(last, "WrongTypeError")
    /\ last.ret.err.details[1].actualType = "list"
    /\ keyspace[last.db][KeyOf(last)].type = "list"

(***************************************************************************)
(* Properties of the Engine, checked under SpecEngine.                     *)
(***************************************************************************)
\* C19: getDatabase(index) throws the out-of-range error for every index
\* below 0 and every index from dbCount on (dbCount and dbCount + 1 among
\* them) and returns a Database for every index in [0, dbCount); dbCount
\* is the same in every state, and so is the set of valid indexes.
GetDatabaseChecksIndex ==
    /\ [][last'.op = "getDatabase"
          => IF last'.db < 0 \/ last'.db >= dbCount
             THEN /\ last'.ret.kind = "throw"
                  /\ last'.ret.err.kind = "Error"
             ELSE last'.ret.kind = "database"]_vars
    /\ [][dbCount' = dbCount]_vars
    /\ [](DOMAIN keyspace = 0..(dbCount - 1) /\ DOMAIN expirations = 0..(dbCount - 1))

\* getDatabase(dbCount + 1) threw after keys were stored and time had passed
GetDatabaseBeyondEnd ==
    /\ last.op = "getDatabase"
    /\ last.db = dbCount + 1
    /\ last.ret.kind = "throw"
    /\ now > 0
    /\ \E d \in DbIndexes : keyspace[d] # EmptyMap

\* C20: getDatabase(i) returns the same Database for the same valid index
\* in every state, a different one for a different index, and a set,
\* delete, setExpiry or lazy eviction done through index i changes neither
\* the keyspace nor the expirations reached through an index j # i.
DatabasesAreSeparate ==
    /\ [][(last'.op = "getDatabase" /\ last'.db \in DbIndexes)
          => last'.ret = RetDatabase(last'.db)]_vars
    /\ \A i, j \in 0..(MaxDbCount - 1) :
          i # j => getDatabase(MaxDbCount, i) # getDatabase(MaxDbCount, j)
    /\ [][last'.op \in {"set", "delete", "dispatch"}
          => \A j \in DbIndexes \ {last'.db} :
                keyspace'[j] = keyspace[j] /\ expirations'[j] = expirations[j]]_vars

\* EXPIRE recorded an expiry in database 1 while database 0 holds the same
\* key without one
OtherDatabaseUntouched ==
    /\ IsCommand(last, "EXPIRE")
    /\ last.db = 1
    /\ last.ret.kind = "number"
    /\ last.ret.num = 1
    /\ MapHas(expirations[1], KeyOf(last))
    /\ MapHas(keyspace[0], KeyOf(last))
    /\ ~MapHas(expirations[0], KeyOf(last))

(***************************************************************************)
(* Properties of the registry, checked under SpecRegistry.                 *)
(***************************************************************************)
\* C21: register throws when a command of the same name, compared after
\* upper-casing, is already registered, and the registry then still maps
\* that name to the command registered first; every other register call
\* adds exactly one entry, the command under its upper-cased name.
RegisterRejectsDuplicate ==
    [][last'.op = "register"
       => LET commandName == toUpperCase(last'.command.name) IN
          IF MapHas(commands, commandName)
          THEN /\ last'.ret.kind = "throw"
               /\ commands' = commands
          ELSE /\ last'.ret = RetVoid
               /\ DOMAIN commands' = (DOMAIN commands) \cup {commandName}
               /\ Cardinality(DOMAIN commands') = Cardinality(DOMAIN commands) + 1
               /\ commands'[commandName] = last'.command
               /\ SameExcept(commands', commands, commandName)]_vars

\* register of the command named "set" threw, and SET is still the command
\* that was registered first
DuplicateTurnedAway ==
    /\ last.op = "register"
    /\ last.command = SetCommandLowerCase
    /\ last.ret.kind = "throw"
    /\ commands["SET"] = SetCommand
    /\ Cardinality(DOMAIN commands) > 1

\* get(name) returns the command registered under the upper-cased name, and
\* null, without throwing, when there is none
LookupByUpperCase ==
    [][last'.op = "lookup"
       => IF MapHas(commands, toUpperCase(last'.name))
          THEN /\ last'.ret = RetCommand
               /\ last'.command = commands[toUpperCase(last'.name)]
          ELSE /\ last'.ret = RetNull
               /\ last'.command = NoCommand]_vars

\* what dispatch of the call c does when the name is given in upper case
Canonical(c) ==
    dispatch(commands, keyspace, expirations, dbCount,
             toUpperCase(c.name), c.rawArgs, c.db, now)

\* the return value r without the command name its error carries
WithoutName(r) == [r EXCEPT !.err.command = ""]

\* C22 as stated: get is case-insensitive and returns null for a name not
\* registered, and a dispatch under any letter-case variant of a registered
\* name does exactly what the dispatch under the upper-case name does: the
\* same calls, the same databases afterwards, the same value returned or
\* error thrown.
DispatchIgnoresCaseExactly ==
    /\ LookupByUpperCase
    /\ [][(last'.op = "dispatch" /\ MapHas(commands, toUpperCase(last'.name)))
          => /\ keyspace' = Canonical(last').ks
             /\ expirations' = Canonical(last').exp
             /\ last'.invoked = Canonical(last').invoked
             /\ last'.ret = Canonical(last').ret]_vars

\* C22 amended: as above, except that an error thrown by dispatch carries
\* the command name in the letter case in which it was requested.
DispatchIgnoresCase ==
    /\ LookupByUpperCase
    /\ [][(last'.op = "dispatch" /\ MapHas(commands, toUpperCase(last'.name)))
          => /\ keyspace' = Canonical(last').ks
             /\ expirations' = Canonical(last').exp
             /\ last'.invoked = Canonical(last').invoked
             /\ WithoutName(last'.ret) = WithoutName(Canonical(last').ret)
             /\ last'.ret.kind = "throw" /\ last'.ret.err.command # ""
                   => toUpperCase(last'.ret.err.command) = toUpperCase(last'.name)]_vars

\* "set" with one argument was turned away by the arity of the registered
\* command, and the error names the command as "set"
LowerCaseNameResolved ==
    /\ last.op = "dispatch"
    /\ last.name = "set"
    /\ MapHas(commands, "SET")
    /\ ThrewKind(last, "ArityError")
    /\ last.ret.err.command = "set"

(***************************************************************************)
(* Properties of the error values, checked under SpecRegistry.             *)
(***************************************************************************)
\* C23: no operation that an error exposes changes the error once it is
\* constructed, neither its metadata nor its list of details.
ErrorsAreImmutable ==
    [][last'.op = "addDetails" => last'.ret.err = last.ret.err]_vars

\* the six kinds of the error taxonomy
Taxonomy ==
    {"UnknownCommandError", "ArityError", "InvalidArgumentError", "WrongTypeError",
     "IndexOutOfRangeError", "DuplicateRegistrationError"}

\* C24: every error thrown by dispatch or by register is of one of the six
\* kinds of the taxonomy and carries, in its metadata, the name of the
\* command it is about.
ErrorsAreStructured ==
    (last.op \in {"dispatch", "register"} /\ last.ret.kind = "throw")
    => /\ last.ret.err.kind \in Taxonomy
       /\ last.ret.err.command # ""

(***************************************************************************)
(* Properties of ValueEntry and of lazy expiry, checked under Spec.        *)
(***************************************************************************)
\* C25: cloneWithValue(v) returns an entry with the receiver's type and
\* createdAt, the value v and updatedAt equal to the current instant, and
\* the receiver has the same type, value, createdAt and updatedAt after the
\* call as before it.
CloneKeepsTypeAndCreation ==
    [][last'.op = "cloneWithValue"
       => LET self == keyspace[last'.db][last'.key]
              clone == last'.ret.entry IN
          /\ last'.ret.kind = "entry"
          /\ clone.type = self.type
          /\ clone.createdAt = self.createdAt
          /\ clone.value = last'.rawArgs[1]
          /\ clone.updatedAt = now
          /\ last'.entry = self
          /\ keyspace'[last'.db][last'.key] = self]_vars

\* a list entry created at instant 0 was cloned later with another value
ClonedLater ==
    /\ last.op = "cloneWithValue"
    /\ last.ret.kind = "entry"
    /\ last.entry.type = "list"
    /\ last.ret.entry.value # last.entry.value
    /\ last.ret.entry.updatedAt > last.ret.entry.createdAt
    /\ last.entry.updatedAt = last.entry.createdAt

\* C26: an advance of the clock changes neither mapping of any Database,
\* and a key leaves the keyspace or the expirations mapping only in a get
\* or a delete of that same key: a key whose expiry has passed stays in
\* both until then, whatever is done to other keys.
ExpiryIsLazy ==
    /\ [][now' # now => keyspace' = keyspace /\ expirations' = expirations]_vars
    /\ [][\A d \in DOMAIN keyspace :
            \A k \in (DOMAIN keyspace[d]) \cup (DOMAIN expirations[d]) :
               (\/ MapHas(keyspace[d], k) /\ ~MapHas(keyspace'[d], k)
                \/ MapHas(expirations[d], k) /\ ~MapHas(expirations'[d], k))
               => /\ last'.op \in {"get", "delete"}
                  /\ last'.db = d
                  /\ last'.key = k]_vars

\* a key whose expiry lies in the past is in both mappings after a get of
\* the other key
ExpiredKeyKept ==
    /\ last.op = "get"
    /\ \E k \in Keys \ {last.key} :
          /\ MapHas(keyspace[last.db], k)
          /\ MapHas(expirations[last.db], k)
          /\ expirations[last.db][k] < now

\* C27: once the clock has reached the expiry recorded for a key, no later
\* get of that key returns the entry that was stored under it at that
\* instant, whatever isExpired, setExpiry, get and delete calls come in
\* between.
StaleEntryNeverServed ==
    [][(last'.op = "get" /\ last'.key \in stale[last'.db])
       => last'.ret.kind = "null"]_vars

(***************************************************************************)
(* Properties of read-only commands, checked under SpecEngine.             *)
(***************************************************************************)
\* the call c is a dispatch of a registered command whose isWrite is false
IsReadOnly(c) ==
    /\ c.op = "dispatch"
    /\ MapHas(commands, toUpperCase(c.name))
    /\ ~commands[toUpperCase(c.name)].isWrite

\* C28 as stated: a dispatch of a command whose isWrite flag is false (GET)
\* leaves the keyspace and expirations of every Database as they were, for
\* every key and every clock value.
ReadOnlyCommandChangesNothing ==
    [][IsReadOnly(last') => keyspace' = keyspace /\ expirations' = expirations]_vars

\* C28 amended: such a dispatch leaves every mapping as it was, except that
\* when execute runs on a key whose recorded expiry is at or before the
\* current time, that key, and no other, is removed from both mappings of
\* the context database and the command returns absent.
ReadOnlyCommandOnlyEvicts ==
    [][IsReadOnly(last')
       => IF /\ last'.invoked = <<"parse", "execute">>
             /\ last'.db \in DbIndexes
             /\ MapHas(expirations[last'.db], KeyOf(last'))
             /\ expirations[last'.db][KeyOf(last')] <= now
          THEN /\ last'.ret = RetNull
               /\ ~MapHas(keyspace'[last'.db], KeyOf(last'))
               /\ ~MapHas(expirations'[last'.db], KeyOf(last'))
               /\ SameExcept(keyspace'[last'.db], keyspace[last'.db], KeyOf(last'))
               /\ SameExcept(expirations'[last'.db], expirations[last'.db], KeyOf(last'))
               /\ \A o \in DbIndexes \ {last'.db} :
                     keyspace'[o] = keyspace[o] /\ expirations'[o] = expirations[o]
          ELSE keyspace' = keyspace /\ expirations' = expirations]_vars

\* GET returned absent for a key that was stored and evicted as expired,
\* while the other database still holds its key with an expiry
GetEvicted ==
    /\ IsCommand(last, "GET")
    /\ last.ret = RetNull
    /\ KeyOf(last) \in evicted[last.db]
    /\ ~MapHas(keyspace[last.db], KeyOf(last))
    /\ \E o \in DbIndexes \ {last.db} : MapHas(expirations[o], KeyOf(last))

(***************************************************************************)
(* Properties of Database.isExpired, checked under Spec.                   *)
(***************************************************************************)
\* C29: isExpired(k) leaves the keyspace and the expirations mapping as
\* they were, also when it returns true, and returns true exactly when an
\* expiry is recorded for k and is less than or equal to the current time.
IsExpiredIsPure ==
    [][last'.op = "isExpired"
       => /\ keyspace' = keyspace
          /\ expirations' = expirations
          /\ last'.ret.kind = "boolean"
          /\ last'.ret.bool = (/\ MapHas(expirations[last'.db], last'.key)
                               /\ expirations[last'.db][last'.key] <= now)]_vars

\* isExpired returned true at the very instant of the expiry, and the key
\* is still in both mappings
ExpiredKeyReported ==
    /\ last.op = "isExpired"
    /\ last.ret = RetBool(TRUE)
    /\ MapHas(keyspace[last.db], last.key)
    /\ MapHas(expirations[last.db], last.key)
    /\ expirations[last.db][last.key] = now
    /\ now > 0

====
